---------------------------- MODULE Spec2Model ----------------------------
(* xilinx-bitstream.py: the BIT container parser (Parser), the verbatim     *)
(* re-emitter (Rewriter), the CRC-dropping / IDCODE-remapping transform     *)
(* (Squeeze) and the top-level script, as a sequential state machine over   *)
(* a byte stream.  Bytes are the integers 0..255; stream positions count    *)
(* from 0 as io.BytesIO.tell() does.  Assertions are enabled (the default   *)
(* interpreter mode).  Integers of the model checker are 32-bit signed, so  *)
(* the input fragments keep the first byte of every word that is unpacked   *)
(* with ">I" below 0x80 (packet types 0..3).                                *)
EXTENDS Integers, Sequences, FiniteSets, TLC

\* ------------------------------------------------------------- bounds
\* Longest packet sequence of a generated bitstream section.
MaxPackets == 3
\* Longest sequence of metadata records of a generated container.
MaxRecords == 2
\* Most bytes in front of the sync word of a generated section.
MaxLead == 2

\* ------------------------------------------------------------ helpers
Min(a, b) == IF a < b THEN a ELSE b
Max(a, b) == IF a > b THEN a ELSE b

RECURSIVE Flatten(_)
Flatten(ss) == IF Len(ss) = 0 THEN <<>> ELSE Head(ss) \o Flatten(Tail(ss))

SeqsUpTo(S, n) == UNION {[1..k -> S] : k \in 0..n}

EndsWith(s, t) ==
    /\ Len(s) >= Len(t)
    /\ SubSeq(s, Len(s) - Len(t) + 1, Len(s)) = t

\* ------------------------------------------------ struct pack / unpack
\* struct.unpack(">H", b) and struct.unpack(">I", b) of exactly 2 / 4 bytes.
UnpackH(b) == b[1] * 256 + b[2]
UnpackI(b) == ((b[1] * 256 + b[2]) * 256 + b[3]) * 256 + b[4]
\* struct.pack(">H", n) and struct.pack(">I", n).
PackH(n) == << (n \div 256) % 256, n % 256 >>
PackI(n) == << (n \div 16777216) % 256, (n \div 65536) % 256,
               (n \div 256) % 256, n % 256 >>

\* bytes.decode() (UTF-8, strict) succeeds on s.
IsCont(b) == b \in 128..191
RECURSIVE Utf8Valid(_)
Utf8Valid(s) ==
    IF Len(s) = 0 THEN TRUE
    ELSE LET b == s[1]
             n == Len(s)
             rest(k) == SubSeq(s, k + 1, n)
         IN  IF b < 128 THEN Utf8Valid(rest(1))
             ELSE IF b \in 194..223
                  THEN n >= 2 /\ IsCont(s[2]) /\ Utf8Valid(rest(2))
             ELSE IF b \in 224..239
                  THEN /\ n >= 3
                       /\ IsCont(s[2]) /\ IsCont(s[3])
                       /\ (b = 224 => s[2] >= 160)
                       /\ (b = 237 => s[2] <= 159)
                       /\ Utf8Valid(rest(3))
             ELSE IF b \in 240..244
                  THEN /\ n >= 4
                       /\ IsCont(s[2]) /\ IsCont(s[3]) /\ IsCont(s[4])
                       /\ (b = 240 => s[2] >= 144)
                       /\ (b = 244 => s[2] <= 143)
                       /\ Utf8Valid(rest(4))
             ELSE FALSE

\* --------------------------------------------------------- io.BytesIO
\* stream.read(n) at position p of buffer d: at most n bytes, fewer at the end.
StreamRead(d, p, n) == SubSeq(d, p + 1, Min(p + n, Len(d)))
\* output.write(data) at position p of buffer buf: overwrites, then extends.
BufWrite(buf, p, data) ==
    [i \in 1..Max(Len(buf), p + Len(data)) |->
        IF i > p /\ i <= p + Len(data) THEN data[i - p]
        ELSE IF i <= Len(buf) THEN buf[i] ELSE 0]

\* ---------------------------------------------------------- registers
registers ==
    << "CRC", "FAR", "FDRI", "FDRO", "CMD", "CTL0", "MASK", "STAT",
       "LOUT", "COR0", "MFWR", "CBC", "IDCODE", "AXSS", "COR1", "_",
       "WBSTAR", "TIMER", "_", "_", "_", "_", "BOOTSTS", "_",
       "CTL1", "_", "_", "_", "_", "_", "_", "BSPI" >>
\* registers.index(name): the first position holding name, counted from 0.
RegistersIndex(name) ==
    (CHOOSE i \in 1..Len(registers) :
        /\ registers[i] = name
        /\ \A j \in 1..(i - 1) : registers[j] # name) - 1

\* Squeeze.idmap.get(idcode, idcode)
idmap(idcode) ==
    IF idcode = 56803475 THEN 56811667        \* 0x0362C093 -> 0x0362E093
    ELSE IF idcode = 56807571 THEN 56811667   \* 0x0362D093 -> 0x0362E093
    ELSE idcode

\* self.addr before any type 1 header (the attribute does not exist) and
\* after Squeeze set it to None.
AddrUnset == -2
AddrNone == -1
\* end_at=None
NoEnd == -1


\* -------------------------------------------------------------- inputs
\* The byte strings the passes are run on, built from fragments of the two
\* formats: the BIT container (handle_bit) and the BIN packet stream
\* (handle_bin).
SyncWord == << 170, 153, 85, 102 >>                  \* AA 99 55 66
BitHead == << 0, 9, 15, 240, 15, 240, 15, 240, 15, 240, 0, 0, 1 >>

\* Packets that every class decodes when their payload is present.
NopT1 == << 32, 0, 0, 0 >>                            \* 0x20000000
ReadStat == << 40, 0, 224, 0 >>                       \* 0x2800E000
WriteCrc == << 48, 0, 0, 1, 0, 0, 222, 173 >>         \* 0x30000001
WriteIdC == << 48, 1, 128, 1, 3, 98, 192, 147 >>      \* 0x30018001 0362C093
WriteIdX == << 48, 1, 128, 1, 3, 98, 240, 147 >>      \* 0x30018001 0362F093
WriteFdri0 == << 48, 0, 64, 0 >>                      \* 0x30004000
WriteT2 == << 80, 0, 0, 1, 3, 98, 208, 147 >>         \* 0x50000001 0362D093
PacketSet ==
    { NopT1, ReadStat, WriteCrc, WriteIdC, WriteIdX, WriteFdri0, WriteT2 }
\* Fragments that end a stream: reserved address bits, opcode 3, packet
\* types 0 and 3, half a header, half a payload, a CRC write of no words, an
\* IDCODE write of two words.
BadAddr == << 48, 4, 0, 0 >>                          \* 0x30040000
BadAddrHi == << 48, 128, 32, 1 >>                     \* 0x30802001
BadOp == << 56, 0, 0, 0 >>                            \* 0x38000000
BadType0 == << 0, 0, 0, 0 >>
BadType3 == << 96, 0, 0, 0 >>
HalfHeader == << 48, 0 >>
HalfPayload == << 48, 0, 32, 1, 0, 0 >>               \* 0x30002001 + 2 bytes
WriteCrc0 == << 48, 0, 0, 0 >>                        \* 0x30000000
WriteId2 == << 48, 1, 128, 2, 3, 98, 192, 147, 0, 0, 0, 0 >>
TailSet ==
    { BadAddr, BadAddrHi, BadOp, BadType0, BadType3, HalfHeader, HalfPayload,
      WriteCrc0, WriteId2 }

\* Metadata records: key, 2-byte length, value.
RecA == << 97, 0, 2, 65, 0 >>                          \* a: "A\0"
RecB == << 98, 0, 2, 255, 0 >>                         \* b: FF 00 (not UTF-8)
RecC == << 99, 0, 3, 195, 169, 0 >>                    \* c: C3 A9 00 (UTF-8)
RecD == << 100, 0, 1, 65 >>                            \* d: "A", no terminator
RecEmpty == << 97, 0, 0 >>                             \* a: length 0
RecShort == << 98, 0, 5, 65, 0 >>                      \* b: length 5, 2 bytes
RecNoLen == << 99, 0 >>                                \* c: half a length
RecX == << 120 >>                                      \* x: no such key
RecordSet == { RecA, RecB, RecC, RecD, RecEmpty, RecShort, RecNoLen, RecX }

\* The 'e' record: key, 4-byte length, the section's bytes.
Section(length, bytes) == << 101 >> \o PackI(length) \o bytes
Exact(bytes) == Section(Len(bytes), bytes)

\* Sections that are decoded exactly, and what may follow one.
PlainSection == Exact(SyncWord \o NopT1)
HalfSection == << 101, 0, 0 >>
AfterSet ==
    { <<>>, PlainSection }
    \cup { PlainSection \o a : a \in { RecA, RecX, PlainSection, HalfSection } }

\* Bytes in front of the sync word: dummy words and a repeated first byte.
LeadSet == SeqsUpTo({ 255, 170 }, MaxLead)

\* Packet streams (handle_bin's input).
PacketStreams ==
    { SyncWord \o Flatten(ps) : ps \in SeqsUpTo(PacketSet, MaxPackets) }
TailStreams ==
    { SyncWord \o Flatten(ps) \o t :
        ps \in SeqsUpTo(PacketSet, MaxPackets - 2), t \in TailSet }
LeadStreams == { l \o SyncWord \o NopT1 \o WriteT2 : l \in LeadSet }
\* Every prefix of a stream, for the declared length and the end of the data
\* to fall anywhere in it.
CutBase == << 255 >> \o SyncWord \o NopT1 \o WriteT2
Cuts == { SubSeq(CutBase, 1, k) : k \in 0..Len(CutBase) }

BitInputs ==
    \* well-formed packet sequences, and those ending in a bad fragment
    { BitHead \o Exact(s) : s \in PacketStreams \cup TailStreams \cup LeadStreams }
    \cup
    \* the declared length against the bytes that are there
    { BitHead \o Section(n, s) : n \in 0..(Len(CutBase) + 1), s \in Cuts }
    \cup
    \* metadata records, then nothing, a section, or a section and more
    { BitHead \o Flatten(rs) \o a :
        rs \in SeqsUpTo(RecordSet, MaxRecords), a \in AfterSet }
    \cup
    \* the two header tags
    { SubSeq(BitHead, 1, k) : k \in 0..Len(BitHead) }
    \cup
    { << 0, 8 >> \o SubSeq(BitHead, 3, 13), SubSeq(BitHead, 1, 11) \o << 0, 2 >> }

BinInputs ==
    { SyncWord \o Flatten(ps) : ps \in SeqsUpTo(PacketSet, MaxPackets - 1) }
    \cup TailStreams \cup LeadStreams \cup Cuts


\* --------------------------------------------------------------- state
VARIABLES
    input,      \* the bytes of the input stream (read)
    mode,       \* "main": the script; "bit": one handle_bit(); "bin": one handle_bin()
    cls,        \* the class of the running pass: "Parser", "Rewriter", "Squeeze"
    pc,         \* "bit", "key", "sync", "pkt": where the pass is;
                \* "done": it returned; "failed": it raised; "exit": script end
    pos,        \* self.stream.tell()
    end_at,     \* handle_bin's end_at (NoEnd for None)
    sync,       \* handle_bin's sync
    addr,       \* self.addr
    out,        \* the bytes of the output buffer (write)
    wpos,       \* self.output.tell()
    err,        \* the exception that ended the pass ("" for none)
    events,     \* the handler calls of the running pass, in order
    emitted,    \* the emit_packet calls of the running pass, in order
    completed,  \* the classes whose handle_bit() the script has seen return
    file,       \* the output file: <<>> not opened, << bytes >> written
    first       \* how the pass before the running one ended (NoFirst for none)

vars ==
    << input, mode, cls, pc, pos, end_at, sync, addr, out, wpos, err,
       events, emitted, completed, file, first >>

Classes == { "Parser", "Rewriter", "Squeeze" }

\* The part of the state a handler reads and changes.
Self ==
    [ pos |-> pos, addr |-> addr, out |-> out, wpos |-> wpos, err |-> err,
      events |-> events, emitted |-> emitted ]

\* A handler call, as recorded in events: its name, the header (or key or
\* length) it was given, its bytes, and self.addr when it was called.
Event(kind, hdr, data, a) == [ kind |-> kind, hdr |-> hdr, data |-> data, addr |-> a ]

Raise(s, e) == [ s EXCEPT !.err = e ]
Call(s, kind, hdr, data) ==
    [ s EXCEPT !.events = Append(@, Event(kind, hdr, data, s.addr)) ]
\* self.stream.read(n): the bytes, and the state after it.
Read(s, n) == StreamRead(input, s.pos, n)
Skip(s, n) == [ s EXCEPT !.pos = Min(@ + n, Len(input)) ]
\* self.output.write(data)
Write(s, data) ==
    [ s EXCEPT !.out = BufWrite(@, s.wpos, data), !.wpos = @ + Len(data) ]


\* ------------------------------------------------------------ handlers
\* Each handler maps the state it is called in to the state it returns in;
\* a state whose err is set is one in which the handler raised.

handle_bitstart(s, a, unk, b) ==
    LET s1 == Call(s, "bitstart", a, unk)
    IN  IF cls = "Parser" THEN s1
        ELSE Write(Write(Write(s1, PackH(a)), unk), PackH(b))

handle_keystart(s, key) ==
    LET s1 == Call(s, "keystart", key[1], <<>>)
    IN  IF cls = "Parser" THEN s1 ELSE Write(s1, key)

Parser_handle_meta(s, key, data) ==
    LET s1 == Call(s, "meta", key[1], data)
    IN  IF ~EndsWith(data, << 0 >>) THEN Raise(s1, "UnterminatedMetadataString")
        ELSE IF ~Utf8Valid(SubSeq(data, 1, Len(data) - 1))
             THEN Raise(s1, "UnicodeDecodeError")
        ELSE s1

handle_meta(s, key, data) ==
    LET s1 == Parser_handle_meta(s, key, data)
    IN  IF cls = "Parser" \/ s1.err # "" THEN s1
        ELSE Write(Write(s1, PackH(Len(data))), data)

handle_binstart(s, length) ==
    LET s1 == Call(s, "binstart", length, <<>>)
    IN  IF cls = "Parser" THEN s1 ELSE Write(s1, PackI(length))

\* The sync-found event given the matched word alone, without the bytes
\* read in front of it.
handle_sync_WordOnly(s, bytes) ==
    LET s1 == Call(s, "sync", 0, SyncWord)
    IN  IF cls = "Parser" THEN s1 ELSE Write(s1, SyncWord)

handle_sync(s, bytes) ==
    LET s1 == Call(s, "sync", 0, bytes)
    IN  IF cls = "Parser" THEN s1 ELSE Write(s1, bytes)

handle_end(s) == Call(s, "end", 0, <<>>)

emit_packet(s, hdr, payload) ==
    LET s1 == [ s EXCEPT !.emitted = Append(@, [ hdr |-> hdr, payload |-> payload ]) ]
    IN  Write(Write(s1, PackI(hdr)), payload)

handle_nop(s, hdr, payload) ==
    LET s1 == Call(s, "nop", hdr, payload)
    IN  IF cls = "Parser" THEN s1 ELSE emit_packet(s1, hdr, payload)

handle_read(s, hdr, payload) ==
    LET s1 == Call(s, "read", hdr, payload)
    IN  IF cls = "Parser" THEN s1 ELSE emit_packet(s1, hdr, payload)

\* The address left as the CRC write set it.
AfterDrop_Kept(a) == a
\* self.addr = None
AfterDrop(a) == AddrNone

Squeeze_handle_write(s, hdr, payload) ==
    IF s.addr = AddrUnset THEN Raise(s, "AttributeError")
    ELSE IF s.addr = RegistersIndex("CRC")
         THEN IF Len(payload) # 4 THEN Raise(s, "struct.error")
              ELSE [ s EXCEPT !.addr = AfterDrop(s.addr) ]
    ELSE IF s.addr = RegistersIndex("IDCODE")
         THEN IF Len(payload) # 4 THEN Raise(s, "struct.error")
              ELSE emit_packet(s, hdr, PackI(idmap(UnpackI(payload))))
    ELSE emit_packet(s, hdr, payload)

handle_write(s, hdr, payload) ==
    LET s1 == Call(s, "write", hdr, payload)
    IN  IF cls = "Parser" THEN s1
        ELSE IF cls = "Rewriter" THEN emit_packet(s1, hdr, payload)
        ELSE Squeeze_handle_write(s1, hdr, payload)

handle_op(s, op, hdr, payload) ==
    IF op = 3 THEN Raise(s, "ReservedOpcode")
    ELSE IF op = 0 THEN handle_nop(s, hdr, payload)
    ELSE IF op = 1 THEN handle_read(s, hdr, payload)
    ELSE handle_write(s, hdr, payload)

\* The check with the mask one bit too wide (0x3f).
ReservedBitsClear_Wide(a) == a = a % 64
\* self.addr == self.addr & 0x1f
ReservedBitsClear(a) == a = a % 32

handle_type1(s, hdr) ==
    LET op == (hdr \div 134217728) % 4              \* (hdr >> 27) & 0x3
        s1 == [ s EXCEPT !.addr = (hdr \div 8192) % 2048 ]  \* (hdr >> 13) & 0x7ff
    IN  IF ~ReservedBitsClear(s1.addr) THEN Raise(s1, "ReservedAddressBitsSet")
        ELSE LET length == hdr % 2048                \* hdr & 0x7ff
                 payload == Read(s1, length * 4)
                 s2 == Skip(s1, length * 4)
             IN  IF Len(payload) # length * 4 THEN Raise(s2, "TruncatedPayload")
                 ELSE handle_op(s2, op, hdr, payload)

handle_type2(s, hdr) ==
    LET op == (hdr \div 134217728) % 4              \* (hdr >> 27) & 0x3
        length == hdr % 134217728                   \* hdr & 0x7ffffff
        payload == Read(s, length * 4)
        s1 == Skip(s, length * 4)
    IN  IF Len(payload) # length * 4 THEN Raise(s1, "TruncatedPayload")
        ELSE handle_op(s1, op, hdr, payload)

\* --------------------------------------------------------------- loops
\* What one step of a pass leaves: the state, where the pass goes on (or
\* "failed" when the step raised), and handle_bin's end_at.
Step(s, next, e) ==
    [ st |-> s, pc |-> IF s.err # "" THEN "failed" ELSE next, end_at |-> e ]

\* handle_bit up to its loop: the two tags and the unknown data.
handle_bit_head(s) ==
    LET ra == Read(s, 2)
        s1 == Skip(s, 2)
    IN  IF Len(ra) # 2 THEN Raise(s1, "struct.error")
        ELSE IF UnpackH(ra) # 9 THEN Raise(s1, "HeaderMismatch")
        ELSE LET a == UnpackH(ra)
                 unk == Read(s1, a)
                 s2 == Skip(s1, a)
                 rb == Read(s2, 2)
                 s3 == Skip(s2, 2)
             IN  IF Len(rb) # 2 THEN Raise(s3, "struct.error")
                 ELSE IF UnpackH(rb) # 1 THEN Raise(s3, "HeaderMismatch")
                 ELSE handle_bitstart(s3, a, unk, UnpackH(rb))

\* One turn of handle_bit's loop over the records.
handle_bit_record(s) ==
    LET key == Read(s, 1)
    IN  IF Len(key) = 0 THEN Step(s, "done", NoEnd)
        ELSE LET s1 == handle_keystart(Skip(s, 1), key)
             IN  IF key = << 101 >>                               \* b"e"
                 THEN LET rl == Read(s1, 4)
                          s2 == Skip(s1, 4)
                      IN  IF Len(rl) # 4
                          THEN Step(Raise(s2, "struct.error"), "key", NoEnd)
                          ELSE LET s3 == handle_binstart(s2, UnpackI(rl))
                               IN  Step(s3, "sync", s3.pos + UnpackI(rl))
                 ELSE IF key[1] \in { 97, 98, 99, 100 }           \* b"abcd"
                 THEN LET rl == Read(s1, 2)
                          s2 == Skip(s1, 2)
                      IN  IF Len(rl) # 2
                          THEN Step(Raise(s2, "struct.error"), "key", NoEnd)
                          ELSE LET data == Read(s2, UnpackH(rl))
                                   s3 == Skip(s2, UnpackH(rl))
                               IN  Step(handle_meta(s3, key, data), "key", NoEnd)
                 ELSE Step(Raise(s1, "NameError"), "key", NoEnd)

\* The condition of handle_bin's first loop.
Synced(bytes) == EndsWith(bytes, SyncWord)

\* end_at is not None and self.stream.tell() >= end_at
AtEnd(p, e) == e # NoEnd /\ p >= e
\* The assertion left out: any position at or past end_at ends the loop.
EndReached_Unchecked(p, e) == TRUE
\* assert self.stream.tell() == end_at
EndReached(p, e) == p = e

\* Where handle_bin returns to: handle_bit's loop, or its caller.
Return == IF mode = "bin" THEN "done" ELSE "key"

\* One turn of handle_bin's loop over the packets; its break runs handle_end
\* and returns.
handle_bin_packet(s, e) ==
    IF AtEnd(s.pos, e)
    THEN IF EndReached(s.pos, e) THEN Step(handle_end(s), Return, NoEnd)
         ELSE Step(Raise(s, "MisalignedEnd"), "pkt", e)
    ELSE LET hb == Read(s, 4)
             s1 == Skip(s, 4)
         IN  IF Len(hb) # 4 THEN Step(Raise(s1, "NameError"), "pkt", e)
             ELSE LET hdr == UnpackI(hb)
                      typ == hdr \div 536870912                   \* hdr >> 29
                  IN  IF typ = 1 THEN Step(handle_type1(s1, hdr), "pkt", e)
                      ELSE IF typ = 2 THEN Step(handle_type2(s1, hdr), "pkt", e)
                      ELSE Step(Raise(s1, "UnknownPacketType"), "pkt", e)


\* ------------------------------------------------------------- actions
Store(s) ==
    /\ pos' = s.pos
    /\ addr' = s.addr
    /\ out' = s.out
    /\ wpos' = s.wpos
    /\ err' = s.err
    /\ events' = s.events
    /\ emitted' = s.emitted

\* The read position a pass of the script finds: the stream left where the
\* pass before it stopped.
StartPos_NotRewound == pos
\* read.seek(0)
StartPos == 0

\* No pass before the running one.
NoFirst ==
    [ cls |-> "", pc |-> "", err |-> "", out |-> <<>>, events |-> <<>>,
      emitted |-> <<>> ]

\* A new object of class c on the input rewound, writing at position 0 of
\* the buffer buf.
Construct(c, buf) ==
    /\ cls' = c
    /\ pos' = StartPos
    /\ addr' = AddrUnset
    /\ out' = buf
    /\ wpos' = 0
    /\ err' = ""
    /\ events' = <<>>
    /\ emitted' = <<>>
    /\ end_at' = NoEnd
    /\ sync' = <<>>

Init ==
    /\ mode \in { "main", "bit", "bin" }
    /\ input \in (IF mode = "bin" THEN BinInputs ELSE BitInputs)
    /\ cls \in (IF mode = "main" THEN { "Parser" }
                ELSE IF mode = "bit" THEN { "Rewriter", "Squeeze" }
                ELSE Classes)
    /\ pc = (IF mode = "bin" THEN "sync" ELSE "bit")
    /\ pos = 0
    /\ end_at = NoEnd
    /\ sync = <<>>
    /\ addr = AddrUnset
    /\ out = <<>>
    /\ wpos = 0
    /\ err = ""
    /\ events = <<>>
    /\ emitted = <<>>
    /\ completed = {}
    /\ file = <<>>
    /\ first = NoFirst

\* handle_bit(), up to its loop.
BitHeader ==
    /\ pc = "bit"
    /\ LET s == handle_bit_head(Self)
       IN  /\ Store(s)
           /\ pc' = IF s.err # "" THEN "failed" ELSE "key"
    /\ UNCHANGED << input, mode, cls, end_at, sync, completed, file, first >>

\* One record: a metadata record, or the 'e' record up to the call of
\* handle_bin, or the end of the input.
BitRecord ==
    /\ pc = "key"
    /\ LET r == handle_bit_record(Self)
       IN  /\ Store(r.st)
           /\ pc' = r.pc
           /\ end_at' = r.end_at
           /\ completed' = IF r.pc = "done" /\ mode = "main"
                            THEN completed \cup { cls } ELSE completed
    /\ sync' = <<>>
    /\ UNCHANGED << input, mode, cls, file, first >>

\* One turn of handle_bin's first loop: sync += self.stream.read(1).  At the
\* end of the input read(1) returns b"" and the turn changes nothing.
SyncScan ==
    /\ pc = "sync"
    /\ ~Synced(sync)
    /\ sync' = sync \o StreamRead(input, pos, 1)
    /\ pos' = Min(pos + 1, Len(input))
    /\ UNCHANGED << input, mode, cls, pc, end_at, addr, out, wpos, err, events,
                    emitted, completed, file, first >>

\* The first loop ends: self.handle_sync(sync).
SyncFound ==
    /\ pc = "sync"
    /\ Synced(sync)
    /\ Store(handle_sync(Self, sync))
    /\ pc' = "pkt"
    /\ UNCHANGED << input, mode, cls, end_at, sync, completed, file, first >>

\* One turn of handle_bin's second loop.
BinPacket ==
    /\ pc = "pkt"
    /\ LET r == handle_bin_packet(Self, end_at)
       IN  /\ Store(r.st)
           /\ pc' = r.pc
           /\ end_at' = r.end_at
    /\ UNCHANGED << input, mode, cls, sync, completed, file, first >>

\* The script: Parser(read).handle_bit() returned; read.seek(0); a new
\* write buffer; Rewriter(read, write).handle_bit().
RunRewriter ==
    /\ mode = "main" /\ cls = "Parser" /\ pc = "done"
    /\ Construct("Rewriter", <<>>)
    /\ pc' = "bit"
    /\ UNCHANGED << input, mode, completed, file, first >>

\* assert read.getbuffer() == write.getbuffer(); both rewound;
\* Squeeze(read, write).handle_bit().
RunSqueeze ==
    /\ mode = "main" /\ cls = "Rewriter" /\ pc = "done"
    /\ IF input = out
       THEN /\ Construct("Squeeze", out)
            /\ pc' = "bit"
       ELSE /\ err' = "AssertionError"
            /\ pc' = "failed"
            /\ UNCHANGED << cls, pos, end_at, sync, addr, out, wpos, events, emitted >>
    /\ UNCHANGED << input, mode, completed, file, first >>

\* The file written whether or not the Squeeze pass raised (as under a
\* try/finally).
MayWriteFile_Always == mode = "main" /\ cls = "Squeeze" /\ pc \in { "done", "failed" }
\* The script reaches open(args.outfile, "wb").
MayWriteFile == mode = "main" /\ cls = "Squeeze" /\ pc = "done"

\* f.write(write.getbuffer())
WriteFile ==
    /\ MayWriteFile
    /\ file' = << out >>
    /\ pc' = "exit"
    /\ UNCHANGED << input, mode, cls, pos, end_at, sync, addr, out, wpos, err,
                    events, emitted, completed, first >>

\* A Rewriter or Squeeze pass has stopped; the input is rewound and a
\* Squeeze pass is run over the same bytes into an empty buffer, as the
\* script runs its passes one after the other over one input.
Rerun ==
    /\ mode \in { "bit", "bin" }
    /\ first = NoFirst
    /\ cls \in { "Rewriter", "Squeeze" }
    /\ pc \in { "done", "failed" }
    /\ first' = [ cls |-> cls, pc |-> pc, err |-> err, out |-> out,
                  events |-> events, emitted |-> emitted ]
    /\ Construct("Squeeze", <<>>)
    /\ pc' = IF mode = "bin" THEN "sync" ELSE "bit"
    /\ UNCHANGED << input, mode, completed, file >>

Next ==
    \/ BitHeader
    \/ BitRecord
    \/ SyncScan
    \/ SyncFound
    \/ BinPacket
    \/ RunRewriter
    \/ RunSqueeze
    \/ WriteFile
    \/ Rerun

Spec == Init /\ [][Next]_vars

\* The interpreter runs the next statement whenever there is one.
FairSpec == Spec /\ WF_vars(Next)


\* ------------------------------------------------- the format, statically
\* The two formats as grammars over a byte string d (offsets from 0), for
\* the claims that speak of well-formed containers and of the boundaries of
\* a section.  Nothing here is read by the actions.

\* The fields of the packet header at offset p.
HdrType(d, p) == d[p + 1] \div 32
HdrOp(d, p) == (d[p + 1] \div 8) % 4
HdrAddr(d, p) == d[p + 2] * 8 + d[p + 3] \div 32
HdrWords(d, p) ==
    IF HdrType(d, p) = 1 THEN (d[p + 3] % 8) * 256 + d[p + 4]
    ELSE ((d[p + 1] % 8) * 256 + d[p + 2]) * 65536 + d[p + 3] * 256 + d[p + 4]

\* A whole packet starts at p and ends by e: type 1 or 2, opcode 0..2, a
\* type 1 address of 5 bits, the payload present.
WholePacket(d, p, e) ==
    /\ p + 4 <= e
    /\ HdrType(d, p) \in { 1, 2 }
    /\ HdrOp(d, p) \in { 0, 1, 2 }
    /\ HdrType(d, p) = 1 => HdrAddr(d, p) < 32
    /\ p + 4 + 4 * HdrWords(d, p) <= e
PacketEnd(d, p) == p + 4 + 4 * HdrWords(d, p)

\* The offset after the first sync word at or after s, or -1.
SyncEnd(d, s) ==
    LET ends == { q \in (s + 4)..Len(d) : SubSeq(d, q - 3, q) = SyncWord }
    IN  IF ends = {} THEN -1 ELSE CHOOSE q \in ends : \A r \in ends : q <= r

\* How the packets from offset p lie against the end e of a section of d:
\* "aligned" (a packet ends at e), "overrun" (a whole packet straddles e),
\* "short" (the data ends inside the packet that straddles e), "invalid"
\* (what stands before e is no packet).
RECURSIVE Lie(_, _, _)
Lie(d, p, e) ==
    IF p = e THEN "aligned"
    ELSE IF p > e THEN "overrun"
    ELSE IF WholePacket(d, p, Len(d)) THEN Lie(d, PacketEnd(d, p), e)
    ELSE IF Len(d) < p + 4 THEN "short"
    ELSE IF /\ HdrType(d, p) \in { 1, 2 }
            /\ HdrOp(d, p) \in { 0, 1, 2 }
            /\ HdrType(d, p) = 1 => HdrAddr(d, p) < 32
         THEN "short"
    ELSE "invalid"

\* The offset of the first 'e' key of d after records a-d that end in 0x00
\* and decode, or -1.
RECURSIVE FirstSection(_, _)
FirstSection(d, p) ==
    IF p >= Len(d) THEN -1
    ELSE IF d[p + 1] = 101 THEN (IF p + 5 <= Len(d) THEN p ELSE -1)
    ELSE IF d[p + 1] \in { 97, 98, 99, 100 } /\ p + 3 <= Len(d)
         THEN LET n == UnpackH(SubSeq(d, p + 2, p + 3))
              IN  IF /\ n >= 1
                     /\ p + 3 + n <= Len(d)
                     /\ d[p + 3 + n] = 0
                     /\ Utf8Valid(SubSeq(d, p + 4, p + 2 + n))
                  THEN FirstSection(d, p + 3 + n)
                  ELSE -1
    ELSE -1

TagsOk(d) ==
    /\ Len(d) >= 13
    /\ SubSeq(d, 1, 2) = << 0, 9 >>
    /\ SubSeq(d, 12, 13) = << 0, 1 >>

\* Where the section of d starts and where it is declared to end.
SectionStart(d) == FirstSection(d, 13) + 5
SectionEnd(d) ==
    SectionStart(d) + UnpackI(SubSeq(d, FirstSection(d, 13) + 2, FirstSection(d, 13) + 5))
HasSection(d) == TagsOk(d) /\ FirstSection(d, 13) >= 0

\* Records a-d, each ending in 0x00, from offset p up to the 'e' key.
RECURSIVE TerminatedRecords(_, _)
TerminatedRecords(d, p) ==
    IF p >= Len(d) THEN FALSE
    ELSE IF d[p + 1] = 101 THEN p + 5 <= Len(d)
    ELSE /\ d[p + 1] \in { 97, 98, 99, 100 }
         /\ p + 3 <= Len(d)
         /\ LET n == UnpackH(SubSeq(d, p + 2, p + 3))
            IN  /\ n >= 1
                /\ p + 3 + n <= Len(d)
                /\ d[p + 3 + n] = 0
                /\ TerminatedRecords(d, p + 3 + n)
RECURSIVE SectionKey(_, _)
SectionKey(d, p) ==
    IF d[p + 1] = 101 THEN p
    ELSE SectionKey(d, p + 3 + UnpackH(SubSeq(d, p + 2, p + 3)))

\* C1, C2: d is a well-formed container: tags 9 and 1, records a-d ending
\* in 0x00, then one 'e' section that is the rest of d and holds sync bytes
\* and whole packets up to its declared length.
WellFormed(d) ==
    /\ TagsOk(d)
    /\ TerminatedRecords(d, 13)
    /\ LET k == SectionKey(d, 13)
           e == k + 5 + UnpackI(SubSeq(d, k + 2, k + 5))
       IN  /\ e = Len(d)
           /\ SyncEnd(d, k + 5) >= 0
           /\ Lie(d, SyncEnd(d, k + 5), e) = "aligned"

\* -------------------------------------------------------------- claims
Last(q) == q[Len(q)]
Terminated == pc \in { "done", "failed", "exit" }

\* C1 (as claimed): on a well-formed container, Rewriter.handle_bit raises
\* nothing and, once it has returned, the output is the input.
C1_RoundTrip ==
    (cls = "Rewriter" /\ mode # "bin" /\ WellFormed(input)) =>
        /\ err = ""
        /\ pc = "done" => out = input

\* The address each emitted packet has when the emitted sequence is decoded:
\* a type 1 header sets it, a type 2 packet takes that of the last type 1
\* header before it (AddrUnset when there is none).
RECURSIVE DecodedAddr(_, _)
DecodedAddr(q, i) ==
    IF i = 0 THEN AddrUnset
    ELSE IF q[i].hdr \div 536870912 = 1 THEN (q[i].hdr \div 8192) % 2048
    ELSE DecodedAddr(q, i - 1)
IsWrite(hdr) == (hdr \div 134217728) % 4 = 2

\* C2 (as claimed): on a well-formed container, no packet Squeeze emits
\* decodes as a write to the CRC register (address 0).
C2_NoCrcWrite ==
    (cls = "Squeeze" /\ mode # "bin" /\ WellFormed(input)) =>
        \A i \in 1..Len(emitted) :
            ~(IsWrite(emitted[i].hdr) /\ DecodedAddr(emitted, i) = 0)

\* The payload C3 asks for: 0362C093 and 0362D093 become 0362E093, any
\* other payload stays.
C3_Remapped(payload) ==
    IF payload = << 3, 98, 192, 147 >> \/ payload = << 3, 98, 208, 147 >>
    THEN << 3, 98, 224, 147 >>
    ELSE payload

\* The step hands a write packet to Squeeze while the address is IDCODE.
C3_IdcodeWrite ==
    /\ cls = "Squeeze"
    /\ Len(events') = Len(events) + 1
    /\ Last(events').kind = "write"
    /\ Last(events').addr = 12

\* C3 (as claimed): every write packet handled by Squeeze at address IDCODE
\* is emitted with its header and the remapped payload.
C3_IdcodeRemap ==
    [][C3_IdcodeWrite =>
          /\ Len(emitted') = Len(emitted) + 1
          /\ Last(emitted') =
                 [ hdr |-> Last(events').hdr,
                   payload |-> C3_Remapped(Last(events').data) ]]_vars

\* The first section of d has a sync word and its declared end falls
\* inside a packet: one that is wholly there, or one the data ends in.
C4_Misaligned(d) ==
    /\ HasSection(d)
    /\ SyncEnd(d, SectionStart(d)) >= 0
    /\ Lie(d, SyncEnd(d, SectionStart(d)), SectionEnd(d)) \in { "overrun", "short" }

\* The declared end of the first section of d is on no boundary at all.
C4_OffBoundary(d) ==
    /\ HasSection(d)
    /\ \/ SyncEnd(d, SectionStart(d)) < 0
       \/ Lie(d, SyncEnd(d, SectionStart(d)), SectionEnd(d)) # "aligned"

\* C4 (as claimed): a pass over a section whose declared length is on no
\* packet boundary ends with the MisalignedEnd check.  (Stated for Parser
\* and Rewriter, whose handlers raise nothing of their own.)
C4_FailsMisaligned ==
    (mode # "bin" /\ cls # "Squeeze" /\ C4_Misaligned(input) /\ Terminated) =>
        err = "MisalignedEnd"

C4_NeverReturns ==
    (mode # "bin" /\ C4_OffBoundary(input)) =>
        /\ pc \notin { "done", "exit" }
        /\ \A i \in 1..Len(events) : events[i].kind # "end"
        /\ file = <<>>
C4_PastEndFails ==
    (pc = "pkt" /\ end_at # NoEnd /\ pos > end_at) =>
        /\ pc' = "failed"
        /\ err' = "MisalignedEnd"
        /\ UNCHANGED << pos, out, events, emitted >>

\* C4 (amended): handle_bin never returns from a section whose declared
\* length is on no boundary (no end-of-stream event, no completed pass, no
\* file); whenever the packet loop is reached past end_at the pass fails
\* there with the MisalignedEnd check.
C4_ExactLength == [](C4_NeverReturns) /\ [][C4_PastEndFails]_vars

\* C4 witness: the check has failed a pass past the declared end of a
\* misaligned section.
C4_Witness ==
    /\ C4_Misaligned(input)
    /\ pc = "failed" /\ err = "MisalignedEnd"
    /\ pos > end_at

\* The sync loop is at the end of the input without a sync word.
C5_Exhausted == pc = "sync" /\ ~Synced(sync) /\ pos = Len(input)

\* C5 (as claimed): once the input is exhausted without a sync word, the
\* pass eventually stops.  (In such a state SyncScan is the one step there
\* is, and it leaves every variable as it is: the loop of lines 88-89 runs
\* on without end.)
C5_SyncTerminates == C5_Exhausted ~> Terminated

\* The record loop is about to read a key that is none of a, b, c, d, e.
C6_UnknownKey ==
    /\ pc = "key"
    /\ pos < Len(input)
    /\ input[pos + 1] \notin { 97, 98, 99, 100, 101 }

\* C6 (as claimed): an unknown key does not fail the parse; the record loop
\* goes on to the next key.
C6_UnknownKeyNonFatal == [][C6_UnknownKey => (pc' = "key" /\ err' = "")]_vars

C8_OrphanType2 ==
    /\ pc = "pkt"
    /\ addr = AddrUnset
    /\ ~AtEnd(pos, end_at)
    /\ WholePacket(input, pos, Len(input))
    /\ HdrType(input, pos) = 2

\* C8 (as claimed): a type 2 packet with no type 1 header before it fails
\* the pass, and no packet event is emitted for it.
C8_Type2NeedsType1 ==
    [][C8_OrphanType2 => (pc' = "failed" /\ events' = events)]_vars

\* handle_bin(end_at=None) is at a packet boundary with no byte left.
C9_EndOfStream ==
    /\ mode = "bin" /\ pc = "pkt" /\ end_at = NoEnd
    /\ pos = Len(input)

\* C9 (as claimed): with no end_at and no bytes left, the packet loop stops
\* without error and the end-of-stream event is emitted.
C9_CleanEnd ==
    [][C9_EndOfStream =>
          (pc' = "done" /\ err' = "" /\ Last(events').kind = "end")]_vars

\* The packet loop is about to decode a type 1 header.
C10_Type1Next ==
    /\ pc = "pkt"
    /\ ~AtEnd(pos, end_at)
    /\ pos + 4 <= Len(input)
    /\ HdrType(input, pos) = 1

\* C10: a type 1 header with any of the upper 6 address bits set fails with
\* ReservedAddressBitsSet, emitting no event and no bytes; one with only the
\* low 5 bits used never fails with it.
C10_ReservedBits ==
    [][C10_Type1Next =>
          IF HdrAddr(input, pos) >= 32
          THEN /\ pc' = "failed"
               /\ err' = "ReservedAddressBitsSet"
               /\ UNCHANGED << events, emitted, out >>
          ELSE err' # "ReservedAddressBitsSet"]_vars

\* C10 witness: a Rewriter pass failed with ReservedAddressBitsSet on the
\* header in front of the read position, having written the bytes before it.
C10_Witness ==
    /\ cls = "Rewriter"
    /\ pc = "failed" /\ err = "ReservedAddressBitsSet"
    /\ pos >= 4 /\ HdrType(input, pos - 4) = 1 /\ HdrAddr(input, pos - 4) >= 32
    /\ Len(out) = pos - 4

\* The running pass is a Squeeze pass over the input a pass of class c was
\* run on before, and both have stopped.
SecondAfter(c) == first.cls = c /\ cls = "Squeeze" /\ Terminated

\* No write packet of the event sequence ev was handled with the address at
\* CRC or IDCODE.
C11_NoCrcIdcodeWrite(ev) ==
    \A i \in 1..Len(ev) :
        ~(ev[i].kind = "write" /\ ev[i].addr \in { RegistersIndex("CRC"), RegistersIndex("IDCODE") })

C11_IsNopRead(e) == e.kind \in { "nop", "read" }
C11_NotWrite(p) == ~IsWrite(p.hdr)
\* The packets handed to handle_nop and handle_read, and the packets emitted
\* that are no write packets.
C11_NopReadHandled ==
    LET nr == SelectSeq(events, C11_IsNopRead)
    IN  [ i \in 1..Len(nr) |-> [ hdr |-> nr[i].hdr, payload |-> nr[i].data ] ]
C11_NopReadEmitted == SelectSeq(emitted, C11_NotWrite)

\* C11 (as claimed): on an input with no write packet handled at address CRC
\* or IDCODE, Squeeze completes exactly when Rewriter completes, and with the
\* same output; on every input Squeeze emits the nop and read packets it is
\* handed with header and payload unchanged.
C11_LikeRewriter ==
    /\ (SecondAfter("Rewriter") /\ C11_NoCrcIdcodeWrite(first.events)
            /\ C11_NoCrcIdcodeWrite(events)) =>
          /\ (pc = "done") <=> (first.pc = "done")
          /\ pc = "done" => out = first.out
    /\ cls = "Squeeze" => C11_NopReadEmitted = C11_NopReadHandled

C13_SqueezeStep == cls = "Squeeze" /\ cls' = cls /\ first' = first
\* The step hands a write packet to the pass.
C13_WriteHandled ==
    /\ Len(events') = Len(events) + 1
    /\ Last(events').kind = "write"
\* The step drops a write to CRC: the packet is handled at address 0 and
\* nothing is raised.
C13_CrcDropped ==
    /\ C13_SqueezeStep /\ C13_WriteHandled
    /\ Last(events').addr = RegistersIndex("CRC")
    /\ err' = ""
\* The step decodes a type 1 header.
C13_Type1Decoded ==
    /\ pc = "pkt" /\ ~AtEnd(pos, end_at)
    /\ pos + 4 <= Len(input)
    /\ HdrType(input, pos) = 1

\* C13: a dropped CRC write emits nothing and leaves the address None; the
\* address stays None until a type 1 header is decoded; a type 2 write
\* handled while it is None is emitted with its header and payload as read.
C13_ClearedAfterDrop ==
    /\ [][C13_CrcDropped =>
             (addr' = AddrNone /\ emitted' = emitted /\ out' = out)]_vars
    /\ [][(C13_SqueezeStep /\ addr = AddrNone /\ ~C13_Type1Decoded) =>
             addr' = AddrNone]_vars
    /\ [][(C13_SqueezeStep /\ addr = AddrNone /\ C13_WriteHandled
              /\ Last(events').hdr \div 536870912 = 2) =>
             /\ err' = ""
             /\ emitted' = Append(emitted, [ hdr |-> Last(events').hdr,
                                             payload |-> Last(events').data ])
             /\ out' = SubSeq(out, 1, wpos) \o PackI(Last(events').hdr)
                          \o Last(events').data
                          \o SubSeq(out, wpos + 5 + Len(Last(events').data), Len(out))]_vars

\* C13 witness: after a dropped CRC write a Squeeze pass has emitted as it
\* stood the type 2 write 50000001 0362D093, whose payload the IDCODE remap
\* would change.
C13_Witness ==
    /\ cls = "Squeeze"
    /\ Len(events) >= 2
    /\ events[Len(events) - 1].kind = "write"
    /\ events[Len(events) - 1].addr = RegistersIndex("CRC")
    /\ Last(events) = Event("write", UnpackI(<< 80, 0, 0, 1 >>), << 3, 98, 208, 147 >>, AddrNone)
    /\ addr = AddrNone
    /\ Len(emitted) >= 1
    /\ Last(emitted) = [ hdr |-> UnpackI(<< 80, 0, 0, 1 >>), payload |-> << 3, 98, 208, 147 >> ]

PacketKinds == { "nop", "read", "write" }

\* The order of the handler calls of a pass: the sync-found event follows
\* the bitstream-start event at once (in handle_bin alone it is the first
\* event) and its bytes end with the first sync word in them; packet events
\* and the end-of-stream event follow the sync-found event or a packet
\* event; nothing of the section follows the end-of-stream event.
C14_Ordered ==
    \A i \in 1..Len(events) :
        LET k == events[i].kind
            before == IF i = 1 THEN "" ELSE events[i - 1].kind
        IN  /\ k = "sync" =>
                /\ before = (IF mode = "bin" THEN "" ELSE "binstart")
                /\ EndsWith(events[i].data, SyncWord)
                /\ SyncEnd(events[i].data, 0) = Len(events[i].data)
            /\ before = "binstart" => k = "sync"
            /\ k \in PacketKinds => before \in PacketKinds \cup { "sync" }
            /\ k = "end" => before \in PacketKinds \cup { "sync" }
            /\ before = "end" => (mode # "bin" /\ k = "keystart")

\* Where the section being decoded starts: after the length of the 'e'
\* record, or at the start of handle_bin's input.
C14_SectionStart == IF mode = "bin" THEN 0 ELSE end_at - Last(events).hdr

\* The step emits the sync-found event: it carries the input bytes from the
\* start of the section to the read position.
C14_SyncCarriesAll ==
    (Len(events') = Len(events) + 1 /\ Last(events').kind = "sync") =>
        /\ pos' = pos
        /\ Last(events').data = SubSeq(input, C14_SectionStart + 1, pos)

\* The step leaves the packet loop: the end-of-stream event is emitted when
\* it leaves without error, and only then.
C14_EndOnReturn ==
    pc = "pkt" =>
        /\ (pc' \in { "key", "done" }) =>
              (err' = "" /\ events' = Append(events, Event("end", 0, <<>>, addr)))
        /\ pc' \in { "pkt", "failed" } =>
              (Len(events') <= Len(events) + 1 /\
               (Len(events') = Len(events) + 1 => Last(events').kind \in PacketKinds))

\* C14: in every pass the events of a section are ordered bitstream-start,
\* sync-found (once, with all bytes consumed up to and including the sync
\* word), packet events, end-of-stream (once, and only when the packet loop
\* ended without error).
C14_EventOrder ==
    /\ [](C14_Ordered)
    /\ [][C14_SyncCarriesAll]_vars
    /\ [][C14_EndOnReturn]_vars

\* C14 witness: a Rewriter pass has returned from a section whose sync word
\* had bytes in front of it and whose packets were a nop and a write.
C14_Witness ==
    /\ cls = "Rewriter" /\ mode = "bit" /\ pc = "done"
    /\ Len(events) = 7
    /\ events[3].kind = "binstart"
    /\ events[4].kind = "sync" /\ Len(events[4].data) > Len(SyncWord)
    /\ events[5].kind = "nop"
    /\ events[6].kind = "write"
    /\ events[7].kind = "end"

\* handle_bit has decoded a section up to its end_at: the end-of-stream
\* event is the last event of the pass.
C15_SectionDecoded ==
    /\ mode # "bin"
    /\ Len(events) > 0
    /\ Last(events).kind = "end"

\* C15 (as claimed): once the section has been decoded, the pass reads no
\* further byte and emits no further event.
C15_SectionTerminal ==
    [][(C15_SectionDecoded /\ cls' = cls /\ first' = first) =>
          (pos' = pos /\ events' = events)]_vars

\* The bytes the running pass has written: the buffer up to the write
\* position.
Written == SubSeq(out, 1, wpos)

\* C16 (as claimed): when Squeeze has completed a well-formed container, the
\* section length it wrote after the 'e' key is the number of bytes it wrote
\* after that length.
C16_LengthConsistent ==
    (cls = "Squeeze" /\ mode # "bin" /\ pc = "done" /\ WellFormed(input)) =>
        /\ HasSection(Written)
        /\ SectionEnd(Written) = Len(Written)

\* C17 (as claimed): the bytes of the output file are the bytes the Squeeze
\* pass wrote, and no others.
C17_FileIsSqueezeOutput ==
    file # <<>> => file[1] = Written

\* The step is one of a Rewriter pass in which a handler was called and
\* returned.
C18_EventHandled ==
    /\ cls = "Rewriter" /\ cls' = cls
    /\ Len(events') > Len(events)
    /\ err' = ""

\* C18 (as claimed): after every event a Rewriter pass has handled, the
\* bytes written are the input from offset 0 to the read position; when the
\* pass has completed, the output is the input consumed.
C18_PrefixOfInput ==
    /\ [][C18_EventHandled => Written' = SubSeq(input, 1, pos')]_vars
    /\ []((cls = "Rewriter" /\ pc = "done") => out = SubSeq(input, 1, pos))

\* C19 (as claimed): a Squeeze pass over an input on which a Rewriter pass
\* completed without error completes without error too.
C19_NoNewFailure ==
    /\ (SecondAfter("Rewriter") /\ first.pc = "done") => (pc = "done" /\ err = "")
    /\ (mode = "main" /\ cls = "Squeeze") => (pc # "failed" /\ err = "")

=============================================================================
